---- MODULE Spec2Model ----
(***************************************************************************)
(* A model of the expense monitor: the advanced Excel parser               *)
(* (advanced_importer.py), the generic parser and the categorizer          *)
(* (importer.py), the record store (db.py), the budget reports (logic.py)  *)
(* and the import page (app.py).                                           *)
(*                                                                         *)
(* Strings are TLA+ strings; "k in val" of Python is Contains(k, val).     *)
(* The Hebrew keywords of the source are written letter by letter in       *)
(* upper-case ASCII (the model's data never uses upper case otherwise):    *)
(*   T=tav A=alef R=resh Y=yod K=final kaf W=shin M=final mem B=bet        *)
(*   E=ayin S=samekh Q=qof C=kaf V=vav H=het P=pe J=tet X=he,              *)
(*   $ = shekel sign,                                                      *)
(*   TARYK = date, WM BYT ESQ = business name, SCVM = sum, HYVB = charge,  *)
(*   PRJYM = details, TYAVR = description, SCVM ESQX = transaction sum.    *)
(* A blank cell (NaN) is the string "nan", which is what astype(str)       *)
(* makes of it.                                                            *)
(***************************************************************************)
EXTENDS Integers, Sequences, FiniteSets, TLC

VARIABLES
    \* ---- AdvancedExcelParser.parse ----
    grid,               \* df_raw: a sequence of rows, each a sequence of cells
    ppc,                \* position in parse: "scan", "last", "finish", "returned", "raised"
    i,                  \* the loop index of parse (0-based, as in the code)
    current_header_idx, \* -1 stands for None
    tables,             \* the list `tables` of non-empty extracted tables
    segments,           \* the (header_idx, end_idx) of every _extract_table call so far
    extracted,          \* what every _extract_table call so far mapped and returned, or raised
    parse_error,        \* "" or the exception that left parse
    full_df,            \* the rows parse returned
    \* ---- the record store (db.py) ----
    categories,         \* table categories: rows [id, user_id, name, year_projection]
    expenses,           \* table expenses: rows [id, user_id, category_id, amount, date]
    next_category_id,   \* AUTOINCREMENT of categories.id
    next_expense_id,    \* AUTOINCREMENT of expenses.id
    cache,              \* table expense_classification_cache: rows [user_id, description, category_name]
    txn,                \* the open transaction of delete_category, if any
    last_op,            \* the last store operation that returned, with its arguments and result
    \* ---- categorize_expenses / process_file ----
    cpc,                \* position: "start", "call", "batch_end", "apply", "returned", "raised"
    api_key,            \* whether an API key was passed
    expenses_df,        \* rows [description, category]; "" is a missing category
    uncached,           \* uncached_df.index: the positions of the rows without a cached category
    batch_i,            \* the loop variable i of the batch loop
    attempt,            \* the loop variable of the retry loop
    batch_categories,   \* the parsed response
    success,
    new_categories_map, \* position -> category, "" where the map has no entry
    calls,              \* generate_content calls made for the current batch
    outcome,            \* how the last call of the current batch ended
    sleeps,             \* the time.sleep(sleep_time) of the current batch, in order
    warnings,           \* st.warning calls of the current batch
    errors,             \* st.error calls of the current batch
    paced,              \* time.sleep(1) calls so far (one after every batch)
    batch_log,          \* the finished batches: [first, size, outcome, labels]
    cache0,             \* the cache table when categorization started
    \* ---- the budget reports (logic.py) ----
    now,                \* datetime.now(): [year, month, day]
    report,             \* the frame the last report call returned, until the store is written again
    \* ---- the import page (app.py, show_import_expenses) ----
    ipc,                \* "idle", "parse", "preview", "categorize", "review", "saving", "saved", "error", "save_raised"
    parser,             \* the parser whose frame is shown: "", "advanced", "generic"
    parsed_df,          \* df of show_import_expenses: the rows [date, description, amount] the parser returned
    imported_expenses,  \* st.session_state['imported_expenses']: the rows with a category
    edited_df,          \* what st.data_editor returned when Save was pressed
    save_i,             \* the position of the save loop in edited_df
    import_error        \* "" or the exception the page showed

parseVars ==
    <<grid, ppc, i, current_header_idx, tables, segments, extracted, parse_error, full_df>>

dbVars == <<categories, expenses, next_category_id, next_expense_id, cache, txn, last_op>>

catVars ==
    <<cpc, api_key, expenses_df, uncached, batch_i, attempt, batch_categories, success,
      new_categories_map, calls, outcome, sleeps, warnings, errors, paced, batch_log, cache0>>

importVars == <<ipc, parser, parsed_df, imported_expenses, edited_df, save_i, import_error>>

appVars == <<now, importVars>>

vars == <<parseVars, dbVars, catVars, appVars, report>>

\* ------------------------------------------------------------------ bounds
MaxRows == 3
MaxCategoryIds == 2
MaxExpenseIds == 2
MaxExpenses == 18

\* ------------------------------------------------------------ idle values
NoTxn ==
    [step |-> "none", user_id |-> 0, name |-> "", category_id |-> 0,
     exps |-> {}, cats |-> {}]

NoOp ==
    [seq |-> 0, op |-> "", user_id |-> 0, key |-> "", value |-> "", ret |-> FALSE,
     repeat |-> FALSE]

IdleParse ==
    /\ grid = <<>> /\ ppc = "idle" /\ i = 0 /\ current_header_idx = -1
    /\ tables = <<>> /\ segments = <<>> /\ extracted = <<>>
    /\ parse_error = "" /\ full_df = <<>>

IdleStore ==
    /\ categories = {} /\ expenses = {}
    /\ next_category_id = 1 /\ next_expense_id = 1
    /\ cache = {} /\ txn = NoTxn /\ last_op = NoOp

\* No report frame at hand.
NoReport == [op |-> "", user_id |-> 0, year |-> 0, month |-> 0, rows |-> {}]

\* No file uploaded.
IdleImport ==
    /\ ipc = "idle" /\ parser = "" /\ parsed_df = <<>> /\ imported_expenses = <<>>
    /\ edited_df = <<>> /\ save_i = 0 /\ import_error = ""

\* The clock of a session in which no report is asked for.
IdleApp ==
    /\ now = [year |-> 2026, month |-> 11, day |-> 1] /\ report = NoReport
    /\ IdleImport

IdleCat ==
    /\ cpc = "idle" /\ api_key = FALSE /\ expenses_df = <<>> /\ uncached = <<>>
    /\ batch_i = 0 /\ attempt = 0 /\ batch_categories = <<>> /\ success = FALSE
    /\ new_categories_map = <<>> /\ calls = 0 /\ outcome = "" /\ sleeps = <<>>
    /\ warnings = 0 /\ errors = 0 /\ paced = 0 /\ batch_log = <<>> /\ cache0 = {}

\* ----------------------------------------------------------------- strings
\* Python's `k in val` on strings.
Contains(k, val) ==
    \E p \in 1..(Len(val) - Len(k) + 1) : SubSeq(val, p, p + Len(k) - 1) = k

CharAt(s, p) == SubSeq(s, p, p)

\* str.replace(ch, '') for a one-character ch.
RECURSIVE RemoveChar(_, _)
RemoveChar(s, ch) ==
    IF Len(s) = 0 THEN ""
    ELSE IF CharAt(s, 1) = ch THEN RemoveChar(SubSeq(s, 2, Len(s)), ch)
    ELSE CharAt(s, 1) \o RemoveChar(SubSeq(s, 2, Len(s)), ch)

\* str.strip(): leading and trailing blanks removed.
RECURSIVE Strip(_)
Strip(s) ==
    IF Len(s) = 0 THEN ""
    ELSE IF CharAt(s, 1) = " " THEN Strip(SubSeq(s, 2, Len(s)))
    ELSE IF CharAt(s, Len(s)) = " " THEN Strip(SubSeq(s, 1, Len(s) - 1))
    ELSE s

DigitChars == "0123456789"

IsDigit(ch) == \E k \in 1..10 : CharAt(DigitChars, k) = ch

DigitVal(ch) == (CHOOSE k \in 1..10 : CharAt(DigitChars, k) = ch) - 1

AllDigits(s) == Len(s) > 0 /\ \A p \in 1..Len(s) : IsDigit(CharAt(s, p))

RECURSIVE DigitsVal(_)
DigitsVal(s) ==
    IF Len(s) = 0 THEN 0
    ELSE 10 * DigitsVal(SubSeq(s, 1, Len(s) - 1)) + DigitVal(CharAt(s, Len(s)))

NaN == "nan"

\* Range of a sequence.
Range(s) == {s[k] : k \in 1..Len(s)}

\* ------------------------------------------------- header detection (parse)
keywords ==
    <<"TARYK", "WM BYT ESQ", "SCVM", "HYVB", "PRJYM", "TYAVR",
      "date", "amount", "description">>

\* A count of keyword hits, not of cells: a cell counts once for every
\* keyword it contains.
MatchCountPerKeyword(row) ==
    Cardinality({ck \in (1..Len(row)) \X (1..Len(keywords)) :
        Contains(keywords[ck[2]], Strip(row[ck[1]]))})

\* sum(1 for val in row_values if any(k in val for k in keywords)), the cells
\* stripped first.
MatchCount(row) ==
    Cardinality({c \in 1..Len(row) :
        \E k \in Range(keywords) : Contains(k, Strip(row[c]))})

HeaderThreshold == 2

IsHeaderRow(row) == MatchCount(row) >= HeaderThreshold

\* ------------------------------------------------------------ _map_columns
Targets == <<"date", "description", "amount">>

col_map(target) ==
    CASE target = "date" -> <<"TARYK", "date", "taarich">>
      [] target = "description" ->
            <<"WM BYT ESQ", "TYAVR", "PRJYM", "description", "details", "business">>
      [] target = "amount" -> <<"SCVM", "SCVM HYVB", "amount", "price", "debit">>

Min(S) == CHOOSE x \in S : \A y \in S : x <= y

\* df.columns.astype(str).str.strip()
StrippedColumns(header) == [c \in 1..Len(header) |-> Strip(header[c])]

ExactColumns(cols, target) ==
    {c \in 1..Len(cols) : cols[c] \in Range(col_map(target))}

PartialColumns(cols, target) ==
    {c \in 1..Len(cols) : \E cand \in Range(col_map(target)) : Contains(cand, cols[c])}

\* One pass over the columns that takes the first exact or partial match.
FinalColFirstMatch(cols, target) ==
    IF ExactColumns(cols, target) \cup PartialColumns(cols, target) # {}
    THEN Min(ExactColumns(cols, target) \cup PartialColumns(cols, target))
    ELSE 0

\* The column index final_cols[target] names (the first column carrying that
\* label), 0 when the target is not in final_cols.
FinalCol(cols, target) ==
    IF ExactColumns(cols, target) # {} THEN Min(ExactColumns(cols, target))
    ELSE IF PartialColumns(cols, target) # {} THEN Min(PartialColumns(cols, target))
    ELSE 0

\* final_cols as a function: the column index of every target, 0 for a
\* target that is not in the dict.
FinalCols(cols) == [t \in Range(Targets) |-> FinalCol(cols, t)]

\* df.rename(columns={v: k for k, v in final_cols.items()}): when two targets
\* name one column the dict keeps the later target (date, description, amount
\* is the order of col_map). 0 when the column is not renamed.
TargetIndex(target) == CHOOSE k \in 1..3 : Targets[k] = target

RenamedTo(final_cols, c) ==
    LET who == {k \in 1..3 : final_cols[Targets[k]] = c}
    IN  IF who = {} THEN 0 ELSE CHOOSE k \in who : \A j \in who : j <= k

\* The column of df_renamed labelled `target`, 0 when there is none:
\* available_cols holds the targets for which this is not 0.
ColumnOf(final_cols, target) ==
    LET hit == {c \in {final_cols[t] : t \in Range(Targets)} \ {0} :
                    RenamedTo(final_cols, c) = TargetIndex(target)}
    IN  IF hit = {} THEN 0 ELSE Min(hit)

available_cols(final_cols) == {t \in Range(Targets) : ColumnOf(final_cols, t) # 0}

\* ----------------------------------------------- cleaning (_extract_table)
\* pd.to_numeric(errors='coerce') of a string: an optional sign, digits with
\* at most one decimal point, at least one digit.  [ok, num, scale]: the
\* value is num / 10^scale.
NotANumber == [ok |-> FALSE, num |-> 0, scale |-> 0]

ToNumericUnsigned(s) ==
    LET dots == {p \in 1..Len(s) : CharAt(s, p) = "."}
    IN  IF Len(s) = 0 \/ Cardinality(dots) > 1 THEN NotANumber
        ELSE IF dots = {} THEN
            IF AllDigits(s) THEN [ok |-> TRUE, num |-> DigitsVal(s), scale |-> 0]
            ELSE NotANumber
        ELSE
            LET d == Min(dots)
                ip == SubSeq(s, 1, d - 1)
                fp == SubSeq(s, d + 1, Len(s))
            IN  IF /\ Len(ip) + Len(fp) > 0
                   /\ \A p \in 1..Len(ip) : IsDigit(CharAt(ip, p))
                   /\ \A p \in 1..Len(fp) : IsDigit(CharAt(fp, p))
                THEN [ok |-> TRUE, num |-> DigitsVal(ip \o fp), scale |-> Len(fp)]
                ELSE NotANumber

ToNumeric(s0) ==
    LET s == Strip(s0)
    IN  IF Len(s) > 1 /\ CharAt(s, 1) = "-" THEN
            LET u == ToNumericUnsigned(SubSeq(s, 2, Len(s)))
            IN  [u EXCEPT !.num = 0 - u.num]
        ELSE IF Len(s) > 1 /\ CharAt(s, 1) = "+" THEN ToNumericUnsigned(SubSeq(s, 2, Len(s)))
        ELSE ToNumericUnsigned(s)

\* The cleaning without the replace of the thousands separator.
CleanAmountKeepingCommas(raw) == Strip(RemoveChar(raw, "$"))

\* .astype(str).str.replace(shekel, '').str.replace(',', '').str.strip()
CleanAmount(raw) == Strip(RemoveChar(RemoveChar(raw, "$"), ","))

\* pd.to_datetime(format='%d.%m.%y', errors='coerce'): day and month of one
\* or two digits, a year of exactly two, a real calendar day.
NaT == [ok |-> FALSE, year |-> 0, month |-> 0, day |-> 0]

IsLeap(y) == (y % 4 = 0 /\ y % 100 # 0) \/ y % 400 = 0

DaysInMonth(y, m) ==
    IF m = 2 THEN (IF IsLeap(y) THEN 29 ELSE 28)
    ELSE IF m \in {4, 6, 9, 11} THEN 30 ELSE 31

ToDatetime(s) ==
    LET dots == {p \in 1..Len(s) : CharAt(s, p) = "."}
    IN  IF Cardinality(dots) # 2 THEN NaT
        ELSE
            LET d1 == Min(dots)
                d2 == Min(dots \ {d1})
                ds == SubSeq(s, 1, d1 - 1)
                ms == SubSeq(s, d1 + 1, d2 - 1)
                ys == SubSeq(s, d2 + 1, Len(s))
            IN  IF /\ AllDigits(ds) /\ Len(ds) <= 2
                   /\ AllDigits(ms) /\ Len(ms) <= 2
                   /\ AllDigits(ys) /\ Len(ys) = 2
                THEN
                    LET yy == DigitsVal(ys)
                        y == IF yy >= 69 THEN 1900 + yy ELSE 2000 + yy
                        m == DigitsVal(ms)
                        d == DigitsVal(ds)
                    IN  IF m \in 1..12 /\ d >= 1 /\ d <= DaysInMonth(y, m)
                        THEN [ok |-> TRUE, year |-> y, month |-> m, day |-> d]
                        ELSE NaT
                ELSE NaT

\* One data row through dropna(subset=['date', 'amount']), the amount
\* cleaning and the date parsing: the row it leaves, or no row.  dc, ac and
\* xc are the columns labelled date, amount and description (xc is 0 when
\* there is none).
CleanRow(dc, ac, xc, row) ==
    LET amt == ToNumeric(CleanAmount(row[ac]))
        dat == ToDatetime(row[dc])
    IN  IF row[dc] = NaN \/ row[ac] = NaN \/ ~amt.ok \/ ~dat.ok THEN <<>>
        ELSE << [date |-> dat,
                 description |-> IF xc = 0 THEN NaN ELSE row[xc],
                 amount |-> amt] >>

RECURSIVE CleanRows(_, _, _, _)
CleanRows(dc, ac, xc, rows) ==
    IF rows = <<>> THEN <<>>
    ELSE CleanRow(dc, ac, xc, Head(rows)) \o CleanRows(dc, ac, xc, Tail(rows))

\* _extract_table(df_raw, header_idx, end_idx), indices 0-based as in the
\* code.  dropna(subset=['date', 'amount']) raises KeyError when the mapping
\* left the frame without a 'date' or an 'amount' column.
ExtractTable(df_raw, header_idx, end_idx) ==
    LET cols == StrippedColumns(df_raw[header_idx + 1])
        body == SubSeq(df_raw, header_idx + 2, end_idx)
        final_cols == FinalCols(cols)
        dc == ColumnOf(final_cols, "date")
        ac == ColumnOf(final_cols, "amount")
        xc == ColumnOf(final_cols, "description")
    IN  IF dc # 0 /\ ac # 0
        THEN [err |-> "", final_cols |-> final_cols, cols |-> available_cols(final_cols),
              rows |-> CleanRows(dc, ac, xc, body)]
        ELSE [err |-> "KeyError", final_cols |-> final_cols,
              cols |-> available_cols(final_cols), rows |-> <<>>]

\* ------------------------------------------------ AdvancedExcelParser.parse
\* The rows a grid is made of:
\*   a header row that names the three fields;
\*   a row that qualifies as a header and names neither a date nor an amount;
\*   a title row: one cell, with two keywords in it;
\*   a clean data row, one whose amount and one whose date does not parse;
\*   a header row whose last column is taken for the description and for
\*   the amount;
\*   a header row with a transaction-sum column before the charge-sum column
\*   and no description column.
RowPool ==
    { <<"date", "description", "amount">>,
      <<"description", "PRJYM", "nan">>,
      <<"SCVM HYVB", "nan", "nan">>,
      <<"01.01.26", "shop", "$1,234.50">>,
      <<"01.01.26", "shop", "abc">>,
      <<"2026-01-01", "shop", "$1,234.50">>,
      <<"date", "nan", "amount description">>,
      <<"TARYK", "SCVM ESQX", "SCVM HYVB">> }

RECURSIVE GridsOfLen(_)
GridsOfLen(n) ==
    IF n = 0 THEN {<<>>}
    ELSE {Append(g, r) : g \in GridsOfLen(n - 1), r \in RowPool}

Grids == UNION {GridsOfLen(n) : n \in 0..MaxRows}

InitParse ==
    /\ grid \in Grids
    /\ ppc = "scan"
    /\ i = 0
    /\ current_header_idx = -1
    /\ tables = <<>>
    /\ segments = <<>>
    /\ extracted = <<>>
    /\ parse_error = ""
    /\ full_df = <<>>
    /\ IdleStore
    /\ IdleCat
    /\ IdleApp

\* One iteration of `for i in range(len(df_raw))` (lines 32-44), the call of
\* _extract_table it makes included.
ScanRow ==
    /\ ppc = "scan"
    /\ i < Len(grid)
    /\ IF IsHeaderRow(grid[i + 1])
       THEN IF current_header_idx # -1
            THEN LET table_df == ExtractTable(grid, current_header_idx, i)
                 IN  /\ segments' = Append(segments, <<current_header_idx, i>>)
                     /\ extracted' = Append(extracted, table_df)
                     /\ IF table_df.err # ""
                        THEN /\ ppc' = "raised"
                             /\ parse_error' = table_df.err
                             /\ UNCHANGED <<i, current_header_idx, tables>>
                        ELSE /\ tables' = IF table_df.rows # <<>>
                                          THEN Append(tables, table_df)
                                          ELSE tables
                             /\ current_header_idx' = i
                             /\ i' = i + 1
                             /\ UNCHANGED <<ppc, parse_error>>
            ELSE /\ current_header_idx' = i
                 /\ i' = i + 1
                 /\ UNCHANGED <<ppc, parse_error, tables, segments, extracted>>
       ELSE /\ i' = i + 1
            /\ UNCHANGED <<ppc, parse_error, tables, segments, extracted,
                           current_header_idx>>
    /\ UNCHANGED <<grid, full_df, dbVars, catVars, appVars, report>>

\* "Process the last table" (lines 46-50).
ProcessLast ==
    /\ ppc = "scan"
    /\ i = Len(grid)
    /\ IF current_header_idx # -1
       THEN LET table_df == ExtractTable(grid, current_header_idx, Len(grid))
            IN  /\ segments' = Append(segments, <<current_header_idx, Len(grid)>>)
                /\ extracted' = Append(extracted, table_df)
                /\ IF table_df.err # ""
                   THEN /\ ppc' = "raised"
                        /\ parse_error' = table_df.err
                        /\ UNCHANGED tables
                   ELSE /\ tables' = IF table_df.rows # <<>>
                                     THEN Append(tables, table_df)
                                     ELSE tables
                        /\ ppc' = "finish"
                        /\ UNCHANGED parse_error
       ELSE /\ ppc' = "finish"
            /\ UNCHANGED <<parse_error, tables, segments, extracted>>
    /\ UNCHANGED <<grid, i, current_header_idx, full_df, dbVars, catVars, appVars, report>>

RECURSIVE ConcatRows(_)
ConcatRows(ts) ==
    IF ts = <<>> THEN <<>> ELSE Head(ts).rows \o ConcatRows(Tail(ts))

\* ParseOutcome without the `if not tables: raise`: an empty result instead.
ParseOutcomeSilent(ts) ==
    IF ts # <<>> /\ \A k \in 1..Len(ts) : "description" \notin ts[k].cols
    THEN [err |-> "KeyError", rows |-> <<>>]
    ELSE [err |-> "", rows |-> ConcatRows(ts)]

\* What lines 52-58 make of `tables`: ValueError when it is empty, otherwise
\* the concatenation, from which full_df[['date', 'description', 'amount']]
\* raises KeyError when no table brought a description column.
ParseOutcome(ts) ==
    IF ts = <<>> THEN [err |-> "ValueError", rows |-> <<>>]
    ELSE IF \A k \in 1..Len(ts) : "description" \notin ts[k].cols
         THEN [err |-> "KeyError", rows |-> <<>>]
         ELSE [err |-> "", rows |-> ConcatRows(ts)]

Finish ==
    /\ ppc = "finish"
    /\ LET out == ParseOutcome(tables)
       IN  /\ parse_error' = out.err
           /\ full_df' = out.rows
           /\ ppc' = IF out.err = "" THEN "returned" ELSE "raised"
    /\ UNCHANGED <<grid, i, current_header_idx, tables, segments, extracted, dbVars, catVars, appVars, report>>

NextParse == ScanRow \/ ProcessLast \/ Finish

SpecParse == InitParse /\ [][NextParse]_vars

\* ------------------------------------------------------------ the store
Users == {1, 2}
CategoryNames == {"Food", "Transport"}
Projections == {12000}
CacheDescriptions == {"shop", "Shop"}
CacheLabels == {"Food", "Transport", "Uncategorized"}

\* The record of an operation that has just returned (the arguments are kept
\* for delete_category and cache_category only); seq flips so that two equal
\* calls in a row are two steps, and repeat tells that the call before had the
\* same arguments.
Returned(op, u, key, value, ret) ==
    [seq |-> 1 - last_op.seq, op |-> op, user_id |-> u, key |-> key,
     value |-> value, ret |-> ret,
     repeat |-> /\ last_op.op = op /\ last_op.user_id = u
                /\ last_op.key = key /\ last_op.value = value]

\* init_db on a fresh file: every table empty.
InitDb == IdleParse /\ IdleStore /\ IdleCat /\ IdleApp

\* SELECT * FROM categories WHERE user_id = ?
get_categories(u) == {c \in categories : c.user_id = u}

\* add_category: the INSERT fails on UNIQUE(user_id, name) and returns False.
AddCategory(u, name, year_projection) ==
    /\ txn.step = "none"
    /\ next_category_id <= MaxCategoryIds
    /\ IF \E c \in categories : c.user_id = u /\ c.name = name
       THEN /\ last_op' = Returned("add_category", 0, "", "", FALSE)
            /\ UNCHANGED <<categories, next_category_id>>
       ELSE /\ categories' = categories \cup
                    {[id |-> next_category_id, user_id |-> u, name |-> name,
                      year_projection |-> year_projection]}
            /\ next_category_id' = next_category_id + 1
            /\ last_op' = Returned("add_category", 0, "", "", TRUE)
    /\ UNCHANGED <<expenses, next_expense_id, cache, txn, parseVars, catVars, appVars>>
    /\ report' = NoReport

\* Amounts are exact decimals, kept in hundredths of the currency unit
\* (amount REAL holds 1234.50 as 123450); year_projection is an INTEGER
\* number of units.
Hundredths(units) == units * 100

\* show_add_expense: the user picks one of their own categories, an amount,
\* a year and a month, and the handler calls db.add_expense with the id of
\* the category and the first day of the month.
AddExpense(u, name, amount, year, month) ==
    /\ txn.step = "none"
    /\ next_expense_id <= MaxExpenseIds
    /\ \E c \in get_categories(u) :
        /\ c.name = name
        /\ expenses' = expenses \cup
                {[id |-> next_expense_id, user_id |-> u, category_id |-> c.id,
                  amount |-> amount,
                  date |-> [year |-> year, month |-> month, day |-> 1]]}
    /\ next_expense_id' = next_expense_id + 1
    /\ last_op' = Returned("add_expense", 0, "", "", TRUE)
    /\ UNCHANGED <<categories, next_category_id, cache, txn, parseVars, catVars, appVars>>
    /\ report' = NoReport

\* What other connections see of a table after a statement of an open
\* transaction: the committed rows (the autocommit variant shows the
\* statement's result at once).
VisibleAfterStatementAutocommit(committed, working) == working

VisibleAfterStatement(committed, working) == committed

\* DELETE FROM expenses WHERE category_id = ? AND user_id = ?
ExpensesWithout(exps, u, category_id) ==
    {e \in exps : ~(e.category_id = category_id /\ e.user_id = u)}

\* DELETE FROM categories WHERE id = ? AND user_id = ?
CategoriesWithout(cats, u, category_id) ==
    {c \in cats : ~(c.id = category_id /\ c.user_id = u)}

\* delete_category, lines 132-137: the SELECT, and when it finds the category
\* the DELETE of its expenses inside the connection's transaction; line 142
\* when it finds none.
DeleteCategoryBegin(u, name) ==
    /\ txn.step = "none"
    /\ IF \E c \in categories : c.name = name /\ c.user_id = u
       THEN LET c == CHOOSE c \in categories : c.name = name /\ c.user_id = u
                working == ExpensesWithout(expenses, u, c.id)
            IN  /\ txn' = [step |-> "expenses_deleted", user_id |-> u, name |-> name,
                           category_id |-> c.id, exps |-> working, cats |-> categories]
                /\ expenses' = VisibleAfterStatement(expenses, working)
                /\ UNCHANGED last_op
       ELSE /\ last_op' = Returned("delete_category", u, name, "", FALSE)
            /\ UNCHANGED <<txn, expenses>>
    /\ UNCHANGED <<categories, next_category_id, next_expense_id, cache, parseVars, catVars, appVars>>
    /\ report' = NoReport

\* delete_category, line 139: the DELETE of the category row.
DeleteCategoryRow ==
    /\ txn.step = "expenses_deleted"
    /\ LET working == CategoriesWithout(txn.cats, txn.user_id, txn.category_id)
       IN  /\ txn' = [txn EXCEPT !.step = "category_deleted", !.cats = working]
           /\ categories' = VisibleAfterStatement(categories, working)
    /\ UNCHANGED <<expenses, next_category_id, next_expense_id, cache, last_op, parseVars, catVars, appVars>>
    /\ report' = NoReport

\* delete_category, lines 140-141: conn.commit() and return True.
DeleteCategoryCommit ==
    /\ txn.step = "category_deleted"
    /\ categories' = txn.cats
    /\ expenses' = txn.exps
    /\ txn' = NoTxn
    /\ last_op' = Returned("delete_category", txn.user_id, txn.name, "", TRUE)
    /\ UNCHANGED <<next_category_id, next_expense_id, cache, parseVars, catVars, appVars>>
    /\ report' = NoReport

\* delete_category, lines 143-147: a statement raised; the function returns
\* False and conn.close() drops what was not committed.
DeleteCategoryFail ==
    /\ txn.step \in {"expenses_deleted", "category_deleted"}
    /\ txn' = NoTxn
    /\ last_op' = Returned("delete_category", txn.user_id, txn.name, "", FALSE)
    /\ UNCHANGED <<categories, expenses, next_category_id, next_expense_id, cache, parseVars, catVars, appVars>>
    /\ report' = NoReport

\* INSERT without OR REPLACE: the PRIMARY KEY rejects the second row of a key
\* and cache_category swallows the error.
InsertKeepingOld(rows, u, description, category_name) ==
    IF \E r \in rows : r.user_id = u /\ r.description = description
    THEN rows
    ELSE rows \cup {[user_id |-> u, description |-> description,
                     category_name |-> category_name]}

\* A table keyed by the description alone: the row of the description is
\* replaced whoever owns it.
InsertOrReplaceByDescription(rows, u, description, category_name) ==
    {r \in rows : r.description # description}
        \cup {[user_id |-> u, description |-> description,
               category_name |-> category_name]}

\* INSERT OR REPLACE INTO expense_classification_cache: the row of the same
\* PRIMARY KEY (user_id, description) is deleted, the new row inserted.
InsertOrReplace(rows, u, description, category_name) ==
    {r \in rows : ~(r.user_id = u /\ r.description = description)}
        \cup {[user_id |-> u, description |-> description,
               category_name |-> category_name]}

\* get_cached_category: fetchone() of the SELECT, None ("") when no row.
get_cached_category(rows, u, description) ==
    LET hit == {r \in rows : r.user_id = u /\ r.description = description}
    IN  IF hit = {} THEN "" ELSE (CHOOSE r \in hit : TRUE).category_name

CacheCategory(u, description, category_name) ==
    /\ txn.step = "none"
    /\ cache' = InsertOrReplace(cache, u, description, category_name)
    /\ last_op' = Returned("cache_category", u, description, category_name, TRUE)
    /\ UNCHANGED <<categories, expenses, next_category_id, next_expense_id, txn, parseVars, catVars, appVars>>
    /\ report' = NoReport

NextDb ==
    \/ \E u \in Users, name \in CategoryNames, p \in Projections : AddCategory(u, name, p)
    \/ \E u \in Users, name \in CategoryNames :
            AddExpense(u, name, Hundredths(5000), 2026, 7)
    \/ \E u \in Users, name \in CategoryNames : DeleteCategoryBegin(u, name)
    \/ DeleteCategoryRow
    \/ DeleteCategoryCommit
    \/ DeleteCategoryFail

SpecDb == InitDb /\ [][NextDb]_vars

\* The cache table on its own: every cache_category call.
NextCache ==
    \E u \in Users, d \in CacheDescriptions, c \in CacheLabels : CacheCategory(u, d, c)

SpecCache == InitDb /\ [][NextCache]_vars

\* The cache table next to the other tables: cache_category calls of both
\* owners between the adds and deletes of categories and expenses.
StoreLabels == {"Food", "Transport"}

NextCacheStore ==
    \/ \E u \in Users, c \in StoreLabels : CacheCategory(u, "shop", c)
    \/ \E u \in Users : AddCategory(u, "Food", 12000)
    \/ \E u \in Users : AddExpense(u, "Food", Hundredths(5000), 2026, 7)
    \/ \E u \in Users : DeleteCategoryBegin(u, "Food")
    \/ DeleteCategoryRow
    \/ DeleteCategoryCommit
    \/ DeleteCategoryFail

SpecCacheStore == InitDb /\ [][NextCacheStore]_vars

\* ------------------------------------------------- budget reports (logic.py)
\* logic.py calls db.get_categories(), db.get_yearly_expenses(year) and
\* db.get_monthly_expenses(year, month) without the user_id that db.py's
\* functions take first; the model passes the owner app.py names in
\* logic.get_projection_status(user_id, year) and
\* logic.get_monthly_summary(user_id, year, month).
RECURSIVE SumAmount(_)
SumAmount(S) ==
    IF S = {} THEN 0
    ELSE LET e == CHOOSE x \in S : TRUE
         IN  e.amount + SumAmount(S \ {e})

\* SELECT c.name as category, SUM(e.amount) as total_spent FROM expenses e
\* JOIN categories c ON e.category_id = c.id WHERE e.user_id = ? AND <period>
\* GROUP BY c.name, over the expenses `hits` the WHERE clause keeps.
SpentByName(hits) ==
    LET joined == {<<e, c>> \in hits \X categories : e.category_id = c.id}
        names == {ec[2].name : ec \in joined}
    IN  {[category |-> n,
          total_spent |-> SumAmount({ec[1] : ec \in {x \in joined : x[2].name = n}})] :
            n \in names}

\* strftime('%Y', e.date) = year_str
get_yearly_expenses(u, year) ==
    SpentByName({e \in expenses : e.user_id = u /\ e.date.year = year})

\* strftime('%Y-%m', e.date) = month_str
get_monthly_expenses(u, year, month) ==
    SpentByName({e \in expenses :
                    e.user_id = u /\ e.date.year = year /\ e.date.month = month})

\* An inner join: the left rows without a match are dropped.
merge_inner(left, right) ==
    {<<lr[1], lr[2].total_spent>> :
        lr \in {x \in left \X right : x[2].category = x[1].name}}

\* pd.merge(left, right, left_on='name', right_on='category', how='left')
\* followed by fillna(0.0) on the right's total_spent: every left row with
\* the total of each right row of its name, or with 0 when there is none.
merge_left(left, right) ==
    {<<lr[1], lr[2].total_spent>> :
        lr \in {x \in left \X right : x[2].category = x[1].name}}
        \cup {<<l, 0>> : l \in {x \in left : \A r \in right : r.category # x.name}}

\* The calendar months after the current one.
months_after(current_month) == 12 - current_month

\* months_remaining = 12 - current_month + 1, line 26.
months_remaining(current_month) == 12 - current_month + 1

\* A quotient that is not rounded: num / den.
Quotient(num, den) == [num |-> num, den |-> den]

\* get_projection_status, lines 9-33.
get_projection_status(u, year) ==
    LET categories_df == get_categories(u)
        yearly_expenses_df == get_yearly_expenses(u, year)
        merged_df == IF yearly_expenses_df # {}
                     THEN merge_left(categories_df, yearly_expenses_df)
                     ELSE {<<c, 0>> : c \in categories_df}
    IN  {[id |-> m[1].id, name |-> m[1].name, year_projection |-> m[1].year_projection,
          total_spent |-> m[2],
          remaining_budget |-> Hundredths(m[1].year_projection) - m[2],
          monthly_allowance |->
              IF months_remaining(now.month) > 0
              THEN Quotient(Hundredths(m[1].year_projection) - m[2],
                            months_remaining(now.month))
              ELSE Quotient(0, 1)] : m \in merged_df}

\* get_monthly_summary, lines 39-58.
get_monthly_summary(u, year, month) ==
    LET monthly_expenses == get_monthly_expenses(u, year, month)
        projection_status == get_projection_status(u, year)
        summary == IF monthly_expenses # {}
                   THEN merge_left(projection_status, monthly_expenses)
                   ELSE {<<ps, 0>> : ps \in projection_status}
    IN  {[id |-> m[1].id, name |-> m[1].name, year_projection |-> m[1].year_projection,
          yearly_spent |-> m[1].total_spent,
          remaining_budget |-> m[1].remaining_budget,
          monthly_allowance |-> m[1].monthly_allowance,
          avg_monthly_target |-> Quotient(Hundredths(m[1].year_projection), 12),
          monthly_spent |-> m[2],
          monthly_variance |->
              Quotient(Hundredths(m[1].year_projection) - 12 * m[2], 12)] : m \in summary}

\* The yearly page of the app: logic.get_projection_status(user_id, year).
ProjectionStatus(u, year) ==
    /\ txn.step = "none"
    /\ report' = [op |-> "get_projection_status", user_id |-> u, year |-> year,
                  month |-> 0, rows |-> get_projection_status(u, year)]
    /\ UNCHANGED <<parseVars, dbVars, catVars, appVars>>

\* The dashboard: logic.get_monthly_summary(user_id, year, month).
MonthlySummary(u, year, month) ==
    /\ txn.step = "none"
    /\ report' = [op |-> "get_monthly_summary", user_id |-> u, year |-> year,
                  month |-> month, rows |-> get_monthly_summary(u, year, month)]
    /\ UNCHANGED <<parseVars, dbVars, catVars, appVars>>

\* The days reports are asked on, and the periods and amounts of the
\* expenses they are asked about.
ReportDays == {[year |-> 2026, month |-> 7, day |-> 15]}

ReportYears == {2025, 2026}
ReportMonths == {6, 7}
ExpenseMonths == {[year |-> 2026, month |-> 7], [year |-> 2025, month |-> 6]}
ReportAmounts == {Hundredths(7000)}

InitLogic ==
    /\ IdleParse /\ IdleStore /\ IdleCat
    /\ now \in ReportDays
    /\ report = NoReport
    /\ IdleImport

NextLogic ==
    \/ \E u \in Users, name \in CategoryNames, p \in Projections : AddCategory(u, name, p)
    \/ \E u \in Users, name \in CategoryNames, a \in ReportAmounts, d \in ExpenseMonths :
            AddExpense(u, name, a, d.year, d.month)
    \/ \E u \in Users, y \in ReportYears : ProjectionStatus(u, y)
    \/ \E u \in Users, y \in ReportYears, m \in ReportMonths : MonthlySummary(u, y, m)

SpecLogic == InitLogic /\ [][NextLogic]_vars

\* ------------------------------------------- categorize_expenses (importer.py)
\* importer.py calls db.get_cached_category(description) and
\* db.cache_category(description, category) without the user_id that db.py's
\* functions take first; the model passes the owner of the session,
\* SessionUser, as app.py's categorize_expenses(df, user_id) means it.
SessionUser == 1
OtherUser == 2

BATCH_SIZE == 15
max_retries == 3
retry_delay == 2

DescPool == <<"shop", "bus", "rent">>
LabelPool == <<"Food", "Transport", "Uncategorized">>

\* The descriptions of an input of n rows: "shop" at every period-th row
\* from the first, "bus" and "rent" in turn elsewhere.
Periods == {3, 16}

InputRows(n, period) ==
    [j \in 1..n |->
        [description |-> IF j % period = 1 THEN DescPool[1]
                         ELSE IF j % 2 = 0 THEN DescPool[2] ELSE DescPool[3],
         category |-> ""]]

\* The cache tables categorization may start from: any of the descriptions
\* cached for the session's owner, and "bus" cached or not for another owner.
InitialCaches ==
    {  {[user_id |-> SessionUser, description |-> d, category_name |-> "Transport"] : d \in ds}
         \cup other :
       ds \in SUBSET Range(DescPool),
       other \in {{}, {[user_id |-> OtherUser, description |-> "bus",
                        category_name |-> "Food"]}} }

InitCat ==
    /\ IdleParse
    /\ categories = {} /\ expenses = {}
    /\ next_category_id = 1 /\ next_expense_id = 1
    /\ txn = NoTxn /\ last_op = NoOp
    /\ cache \in InitialCaches
    /\ cache0 = cache
    /\ cpc = "start"
    /\ api_key \in BOOLEAN
    /\ \E n \in 0..MaxExpenses, period \in Periods : expenses_df = InputRows(n, period)
    /\ uncached = <<>> /\ batch_i = 0 /\ attempt = 0 /\ batch_categories = <<>>
    /\ success = FALSE /\ new_categories_map = <<>> /\ calls = 0 /\ outcome = ""
    /\ sleeps = <<>> /\ warnings = 0 /\ errors = 0 /\ paced = 0 /\ batch_log = <<>>
    /\ IdleApp

\* expenses_df['description'].apply(db.get_cached_category), line 102.
WithCachedCategory(df, rows) ==
    [j \in 1..Len(df) |->
        [df[j] EXCEPT !.category = get_cached_category(rows, SessionUser, df[j].description)]]

\* An index without the mask of line 105: every row from j on.
UncachedIndexAll(df, j) == [k \in 1..(Len(df) - j + 1) |-> k + j - 1]

\* The index of expenses_df[expenses_df['category'].isna()], lines 105-106.
RECURSIVE UncachedIndex(_, _)
UncachedIndex(df, j) ==
    IF j > Len(df) THEN <<>>
    ELSE (IF df[j].category = "" THEN <<j>> ELSE <<>>) \o UncachedIndex(df, j + 1)

\* uncached_df.iloc[i:i+BATCH_SIZE], as positions of expenses_df.
Batch(index, first) ==
    SubSeq(index, first + 1,
           IF first + BATCH_SIZE < Len(index) THEN first + BATCH_SIZE ELSE Len(index))

\* categorize_expenses up to the batch loop, lines 96-118.
EnterCategorize ==
    IF ~api_key
    THEN /\ cpc' = "returned"
         /\ UNCHANGED <<expenses_df, uncached, new_categories_map>>
    ELSE LET df == WithCachedCategory(expenses_df, cache)
             index == UncachedIndex(df, 1)
         IN  /\ expenses_df' = df
             /\ uncached' = index
             /\ new_categories_map' = [j \in 1..Len(df) |-> ""]
             /\ cpc' = IF index = <<>> THEN "returned" ELSE "call"

CategorizeExpenses ==
    /\ cpc = "start"
    /\ EnterCategorize
    /\ UNCHANGED <<api_key, batch_i, attempt, batch_categories, success, calls, outcome,
                   sleeps, warnings, errors, paced, batch_log, cache0, parseVars, dbVars, appVars, report>>

\* process_file after the parse, lines 136-146.
ProcessFile ==
    /\ cpc = "start"
    /\ IF api_key
       THEN EnterCategorize
       ELSE /\ expenses_df' = [j \in 1..Len(expenses_df) |->
                                [expenses_df[j] EXCEPT !.category = "Uncategorized"]]
            /\ cpc' = "returned"
            /\ UNCHANGED <<uncached, new_categories_map>>
    /\ UNCHANGED <<api_key, batch_i, attempt, batch_categories, success, calls, outcome,
                   sleeps, warnings, errors, paced, batch_log, cache0, parseVars, dbVars, appVars, report>>

\* The responses of the classifier that parse as JSON: `size` labels, taken
\* from LabelPool in turn starting at `shift`.
Response(size, shift) ==
    [k \in 1..size |-> LabelPool[((k - 1 + shift) % Len(LabelPool)) + 1]]

RECURSIVE Pow2(_)
Pow2(n) == IF n = 0 THEN 1 ELSE 2 * Pow2(n - 1)

\* Line 172 with a delay that does not grow.
sleep_time_flat(att) == retry_delay

\* sleep_time = retry_delay * (2 ** attempt), line 172.
sleep_time(att) == retry_delay * Pow2(att)

\* attempt < max_retries - 1, line 171.
attempts_remain(att) == att < max_retries - 1

\* Whether the retry loop makes another attempt after one that ended `kind`:
\* "ok" and "mismatch" break (lines 164, 167), "error" breaks (line 179), and
\* range(max_retries) ends after the last attempt.
loop_goes_on(kind, att) == kind = "rate_limit" /\ att + 1 < max_retries

\* One pass of the retry loop, lines 147-179: a generate_content call that
\* returns a parsable response of `size` labels (kind "ok"), or raises with a
\* rate-limit message (kind "rate_limit") or with any other (kind "error").
CallClassifier(kind, size, shift) ==
    /\ cpc = "call"
    /\ calls' = calls + 1
    /\ LET n == Len(Batch(uncached, batch_i))
           ended == IF kind = "ok" /\ size # n THEN "mismatch" ELSE kind
       IN  /\ outcome' = ended
           /\ batch_categories' = IF kind = "ok" THEN Response(size, shift)
                                  ELSE batch_categories
           /\ success' = (ended = "ok")
           /\ warnings' = IF kind = "rate_limit" /\ attempts_remain(attempt)
                          THEN warnings + 1 ELSE warnings
           /\ errors' = IF kind = "error" \/ (kind = "rate_limit" /\ ~attempts_remain(attempt))
                        THEN errors + 1 ELSE errors
           /\ sleeps' = IF kind = "rate_limit" /\ attempts_remain(attempt)
                        THEN Append(sleeps, sleep_time(attempt)) ELSE sleeps
           /\ IF loop_goes_on(ended, attempt)
              THEN attempt' = attempt + 1 /\ cpc' = "call"
              ELSE attempt' = attempt /\ cpc' = "batch_end"
    /\ UNCHANGED <<api_key, expenses_df, uncached, batch_i, new_categories_map, paced,
                   batch_log, cache0, parseVars, dbVars, appVars, report>>

\* Lines 183-187 without the cache_category call.
CacheBatchSkipped(rows, df, batch, labels) == rows

\* db.cache_category(row['description'], category) for the rows of the batch
\* in order, lines 183-187.
RECURSIVE CacheBatch(_, _, _, _)
CacheBatch(rows, df, batch, labels) ==
    IF batch = <<>> THEN rows
    ELSE CacheBatch(InsertOrReplace(rows, SessionUser, df[Head(batch)].description,
                                    Head(labels)),
                    df, Tail(batch), Tail(labels))

\* The category new_categories_map gets for the k-th row of the batch,
\* lines 181-190.
BatchCategory(ok, labels, k) == IF ok THEN labels[k] ELSE "Uncategorized"

\* st.progress takes a float in [0.0, 1.0] and raises StreamlitAPIException
\* for any other: (i + BATCH_SIZE) / len(uncached_df) is above 1.0 in the
\* last batch unless the number of uncached rows is a multiple of BATCH_SIZE.
ProgressRaises(first, n) == first + BATCH_SIZE > n

\* The end of a batch, lines 181-193, and the step of the batch loop.  The
\* exception of progress_bar.progress (line 192) is caught nowhere in
\* categorize_expenses: it leaves the function after the map and the cache
\* were updated, before the pacing sleep.
BatchEnd ==
    /\ cpc = "batch_end"
    /\ LET batch == Batch(uncached, batch_i)
       IN  /\ new_categories_map' =
                [j \in 1..Len(new_categories_map) |->
                    IF \E k \in 1..Len(batch) : batch[k] = j
                    THEN BatchCategory(success, batch_categories,
                                       CHOOSE k \in 1..Len(batch) : batch[k] = j)
                    ELSE new_categories_map[j]]
           /\ cache' = IF success
                       THEN CacheBatch(cache, expenses_df, batch, batch_categories)
                       ELSE cache
           /\ batch_log' = Append(batch_log,
                [first |-> batch_i, size |-> Len(batch), outcome |-> outcome,
                 labels |-> IF success THEN batch_categories ELSE <<>>])
    /\ IF ProgressRaises(batch_i, Len(uncached))
       THEN /\ cpc' = "raised"
            /\ UNCHANGED <<paced, batch_i, attempt, batch_categories, success, calls,
                           outcome, sleeps, warnings, errors>>
       ELSE /\ paced' = paced + 1
            /\ batch_i' = batch_i + BATCH_SIZE
            /\ cpc' = IF batch_i + BATCH_SIZE < Len(uncached) THEN "call" ELSE "apply"
            /\ attempt' = 0 /\ batch_categories' = <<>> /\ success' = FALSE
            /\ calls' = 0 /\ outcome' = "" /\ sleeps' = <<>> /\ warnings' = 0
            /\ errors' = 0
    /\ UNCHANGED <<api_key, expenses_df, uncached, cache0, parseVars, appVars, report,
                   categories, expenses, next_category_id, next_expense_id, txn, last_op>>

\* "Apply new categories to original dataframe", lines 195-201.
ApplyCategories ==
    /\ cpc = "apply"
    /\ expenses_df' = [j \in 1..Len(expenses_df) |->
            IF new_categories_map[j] # ""
            THEN [expenses_df[j] EXCEPT !.category = new_categories_map[j]]
            ELSE expenses_df[j]]
    /\ cpc' = "returned"
    /\ UNCHANGED <<api_key, uncached, batch_i, attempt, batch_categories, success,
                   new_categories_map, calls, outcome, sleeps, warnings, errors, paced,
                   batch_log, cache0, parseVars, dbVars, appVars, report>>

\* The sizes a parsable response may have for the current batch: the right
\* one, one label short, one label too many.
ResponseSizes ==
    LET n == Len(Batch(uncached, batch_i)) IN {n - 1, n, n + 1}

NextCat ==
    \/ CategorizeExpenses
    \/ ProcessFile
    \/ \E size \in ResponseSizes, shift \in 0..(Len(LabelPool) - 1) :
            CallClassifier("ok", size, shift)
    \/ CallClassifier("rate_limit", 0, 0)
    \/ CallClassifier("error", 0, 0)
    \/ BatchEnd
    \/ ApplyCategories

SpecCat == InitCat /\ [][NextCat]_vars

\* The function runs on: every call made returns or raises, and no line
\* waits for anything else (the sleeps are finite).
SpecCatLive == SpecCat /\ WF_vars(NextCat)

\* ------------------------------------------- GenericParser.parse (importer.py)
\* str.lower() (lines 40, 62) changes Latin capitals only: the Latin text of
\* the grids is lower case and the Hebrew letters have no case, so the cells
\* are compared as they are.
potential_headers ==
    <<"date", "taarich", "time", "TARYK", "description", "desc", "details", "shem",
      "name", "TYAVR", "PRJYM", "BYT ESQ", "amount", "schum", "price", "cost",
      "SCVM", "HYVB">>

\* Lines 42-46: the cells of the row with a potential header inside.
GenericMatches(row) ==
    Cardinality({c \in 1..Len(row) :
        \E h \in Range(potential_headers) : Contains(h, row[c])})

HeaderSearchRows == 10
GenericThreshold == 2

\* Lines 38-50: the first of the first 10 rows with at least 2 matching
\* cells, -1 for None.
header_row_idx(df_raw) ==
    LET last == IF Len(df_raw) < HeaderSearchRows THEN Len(df_raw) ELSE HeaderSearchRows
        hits == {r \in 0..(last - 1) : GenericMatches(df_raw[r + 1]) >= GenericThreshold}
    IN  IF hits = {} THEN -1 ELSE Min(hits)

\* The name read_excel gives the column of a blank header cell
\* ("Unnamed: 2" for the third column), lower-cased by line 62.
UnnamedColumn(c) == "unnamed: " \o CharAt(DigitChars, c)

\* The columns of pd.read_excel(file, header=...) after line 62.
ReadColumns(header) ==
    [c \in 1..Len(header) |->
        IF header[c] = NaN THEN UnnamedColumn(c) ELSE Strip(header[c])]

\* Lines 52-56: the frame read with the header row found, or with the first
\* row as header when none was found.
GenericFrame(df_raw) ==
    IF df_raw = <<>> THEN [columns |-> <<>>, body |-> <<>>]
    ELSE LET h == IF header_row_idx(df_raw) = -1 THEN 0 ELSE header_row_idx(df_raw)
         IN  [columns |-> ReadColumns(df_raw[h + 1]),
              body |-> SubSeq(df_raw, h + 2, Len(df_raw))]

generic_col_map(target) ==
    CASE target = "date" -> <<"date", "taarich", "time", "TARYK">>
      [] target = "description" ->
            <<"description", "desc", "details", "shem", "name", "TYAVR", "PRJYM",
              "BYT ESQ">>
      [] target = "amount" -> <<"amount", "schum", "price", "cost", "SCVM", "HYVB">>

\* Lines 72-78: the first candidate, in the order of the list, that some
\* column has inside, and the first column that has it; 0 when no candidate
\* is in any column.
GenericFinalCol(cols, target) ==
    LET cands == generic_col_map(target)
        found == {k \in 1..Len(cands) : \E c \in 1..Len(cols) : Contains(cands[k], cols[c])}
    IN  IF found = {} THEN 0
        ELSE Min({c \in 1..Len(cols) : Contains(cands[Min(found)], cols[c])})

GenericFinalCols(cols) == [t \in Range(Targets) |-> GenericFinalCol(cols, t)]

\* The label of column c after df.rename (line 86).
LabelAfterRename(cols, final_cols, c) ==
    IF RenamedTo(final_cols, c) # 0 THEN Targets[RenamedTo(final_cols, c)] ELSE cols[c]

\* The column df[['date', 'description', 'amount']] takes for the target,
\* 0 when no column has the label (KeyError, line 87).
GenericColumnOf(cols, final_cols, target) ==
    LET hit == {c \in 1..Len(cols) : LabelAfterRename(cols, final_cols, c) = target}
    IN  IF hit = {} THEN 0 ELSE Min(hit)

\* A value of the date column of a frame: a Timestamp (typed) or the cell as
\* it was read; and a value of the amount column: a float or the cell.
RawDate(cell) == [typed |-> FALSE, str |-> cell, ts |-> NaT]

RawAmount(cell) == [typed |-> FALSE, str |-> cell, num |-> NotANumber]

\* GenericParser.parse on an Excel file: the rows below the header with the
\* three mapped columns, as read; ValueError when a field has no column
\* (line 84), KeyError when the rename left a label without a column.
GenericParse(df_raw) ==
    LET cols == GenericFrame(df_raw).columns
        body == GenericFrame(df_raw).body
        final_cols == GenericFinalCols(cols)
        dc == GenericColumnOf(cols, final_cols, "date")
        xc == GenericColumnOf(cols, final_cols, "description")
        ac == GenericColumnOf(cols, final_cols, "amount")
    IN  IF \E t \in Range(Targets) : final_cols[t] = 0
        THEN [err |-> "ValueError", rows |-> <<>>]
        ELSE IF dc = 0 \/ xc = 0 \/ ac = 0
        THEN [err |-> "KeyError", rows |-> <<>>]
        ELSE [err |-> "",
              rows |-> [j \in 1..Len(body) |->
                  [date |-> RawDate(body[j][dc]),
                   description |-> body[j][xc],
                   amount |-> RawAmount(body[j][ac])]]]

\* ------------------------------------- show_import_expenses (app.py 295-374)
\* The page handles an uploaded Excel file (the .csv branch, line 312, runs
\* the generic parser on pd.read_csv and is not modelled).  The categorizer
\* is the one above, called for the owner of the session with an API key.

\* The frame AdvancedExcelParser.parse returned: Timestamps and floats.
TypedRows(rows) ==
    [j \in 1..Len(rows) |->
        [date |-> [typed |-> TRUE, str |-> "", ts |-> rows[j].date],
         description |-> rows[j].description,
         amount |-> [typed |-> TRUE, str |-> "", num |-> rows[j].amount]]]

\* Lines 305-307 alone: what the advanced parser raised is the page's error.
parser_chain_without_fallback(advanced, generic) ==
    [parser |-> "advanced", err |-> advanced.err, rows |-> advanced.rows]

\* Lines 304-311: the advanced parser's frame, or after any exception of it
\* the outcome of the generic parser on the same file.
parser_chain(advanced, generic) ==
    IF advanced.err = ""
    THEN [parser |-> "advanced", err |-> "", rows |-> advanced.rows]
    ELSE [parser |-> "generic", err |-> generic.err, rows |-> generic.rows]

\* Lines 301-317 and 328-329, once AdvancedExcelParser.parse has ended.
ParseFile ==
    /\ ipc = "parse"
    /\ ppc \in {"returned", "raised"}
    /\ LET out == parser_chain([err |-> parse_error, rows |-> TypedRows(full_df)],
                               GenericParse(grid))
       IN  /\ parser' = out.parser
           /\ import_error' = out.err
           /\ parsed_df' = out.rows
           /\ ipc' = IF out.err = "" THEN "preview" ELSE "error"
    /\ UNCHANGED <<imported_expenses, edited_df, save_i, now, report, parseVars, dbVars,
                   catVars>>

\* Lines 319-322: "Process and Categorize" pressed; categorize_expenses
\* starts on the rows of the frame.
ProcessAndCategorize ==
    /\ ipc = "preview"
    /\ ipc' = "categorize"
    /\ import_error' = ""
    /\ cpc' = "start"
    /\ api_key' = TRUE
    /\ expenses_df' = [j \in 1..Len(parsed_df) |->
                        [description |-> parsed_df[j].description, category |-> ""]]
    /\ cache0' = cache
    /\ uncached' = <<>> /\ batch_i' = 0 /\ attempt' = 0 /\ batch_categories' = <<>>
    /\ success' = FALSE /\ new_categories_map' = <<>> /\ calls' = 0 /\ outcome' = ""
    /\ sleeps' = <<>> /\ warnings' = 0 /\ errors' = 0 /\ paced' = 0 /\ batch_log' = <<>>
    /\ UNCHANGED <<parser, parsed_df, imported_expenses, edited_df, save_i, now, report,
                   parseVars, dbVars>>

\* Lines 325-326: categorize_expenses returned; the frame goes to the
\* session state for review.
CategorizeReturned ==
    /\ ipc = "categorize"
    /\ cpc = "returned"
    /\ imported_expenses' =
            [j \in 1..Len(parsed_df) |->
                [date |-> parsed_df[j].date,
                 description |-> parsed_df[j].description,
                 amount |-> parsed_df[j].amount,
                 category |-> expenses_df[j].category]]
    /\ ipc' = "review"
    /\ UNCHANGED <<parser, parsed_df, edited_df, save_i, import_error, now, report,
                   parseVars, dbVars, catVars>>

\* Lines 328-329: categorize_expenses raised; the page shows the error and
\* the preview with its button stays.
CategorizeRaised ==
    /\ ipc = "categorize"
    /\ cpc = "raised"
    /\ import_error' = "StreamlitAPIException"
    /\ ipc' = "preview"
    /\ UNCHANGED <<parser, parsed_df, imported_expenses, edited_df, save_i, now, report,
                   parseVars, dbVars, catVars>>

\* The options of the category column of the editor, line 340.
CategoryOptions(u) == {c.name : c \in get_categories(u)} \cup {"Uncategorized"}

\* Lines 335-349: "Save to Database" pressed on the reviewed rows; the user
\* may have set the category of any row to one of the options.
SaveToDatabase(cats) ==
    /\ ipc = "review"
    /\ \A j \in 1..Len(imported_expenses) :
            cats[j] \in CategoryOptions(SessionUser) \cup {imported_expenses[j].category}
    /\ edited_df' = [j \in 1..Len(imported_expenses) |->
                        [imported_expenses[j] EXCEPT !.category = cats[j]]]
    /\ save_i' = 1
    /\ ipc' = "saving"
    /\ UNCHANGED <<parser, parsed_df, imported_expenses, import_error, now, report,
                   parseVars, dbVars, catVars>>

\* pd.to_datetime(value) without a format, line 361: a Timestamp as it is;
\* of a string the ISO form year-month-day, or three numbers with dots read
\* month first (day first when the first is above 12) with a two-digit year
\* taken within 50 years of the current one; anything else raises or gives
\* NaT, whose strftime raises.
ParseAnyDate(s, this_year) ==
    LET dots == {p \in 1..Len(s) : CharAt(s, p) = "."}
    IN  IF /\ Len(s) = 10 /\ CharAt(s, 5) = "-" /\ CharAt(s, 8) = "-"
           /\ AllDigits(SubSeq(s, 1, 4)) /\ AllDigits(SubSeq(s, 6, 7))
           /\ AllDigits(SubSeq(s, 9, 10))
        THEN LET y == DigitsVal(SubSeq(s, 1, 4))
                 m == DigitsVal(SubSeq(s, 6, 7))
                 d == DigitsVal(SubSeq(s, 9, 10))
             IN  IF m \in 1..12 /\ d >= 1 /\ d <= DaysInMonth(y, m)
                 THEN [ok |-> TRUE, year |-> y, month |-> m, day |-> d]
                 ELSE NaT
        ELSE IF Cardinality(dots) # 2 THEN NaT
        ELSE
            LET d1 == Min(dots)
                d2 == Min(dots \ {d1})
                as == SubSeq(s, 1, d1 - 1)
                bs == SubSeq(s, d1 + 1, d2 - 1)
                ys == SubSeq(s, d2 + 1, Len(s))
            IN  IF /\ AllDigits(as) /\ Len(as) <= 2
                   /\ AllDigits(bs) /\ Len(bs) <= 2
                   /\ AllDigits(ys) /\ Len(ys) = 2
                THEN
                    LET yy == (this_year \div 100) * 100 + DigitsVal(ys)
                        y == IF yy >= this_year + 50 THEN yy - 100
                             ELSE IF yy < this_year - 50 THEN yy + 100 ELSE yy
                        a == DigitsVal(as)
                        b == DigitsVal(bs)
                        m == IF a <= 12 THEN a ELSE b
                        d == IF a <= 12 THEN b ELSE a
                    IN  IF m \in 1..12 /\ d >= 1 /\ d <= DaysInMonth(y, m)
                        THEN [ok |-> TRUE, year |-> y, month |-> m, day |-> d]
                        ELSE NaT
                ELSE NaT

to_datetime(value, this_year) ==
    IF value.typed THEN value.ts ELSE ParseAnyDate(value.str, this_year)

\* Lines 360-364: the parsed date, or today's when the parse or the
\* formatting raises (the bare except).
date_str(value, today) ==
    LET date_obj == to_datetime(value, today.year)
    IN  IF date_obj.ok
        THEN [year |-> date_obj.year, month |-> date_obj.month, day |-> date_obj.day]
        ELSE [year |-> today.year, month |-> today.month, day |-> today.day]

\* float(value), line 366: a float as it is; a blank cell is the float nan;
\* a string of digits with at most one point and an optional sign is its
\* value; any other string raises ValueError.
float_of(value) ==
    IF value.typed THEN [kind |-> "number", num |-> value.num.num, scale |-> value.num.scale]
    ELSE IF Strip(value.str) = NaN THEN [kind |-> "nan", num |-> 0, scale |-> 0]
    ELSE IF ToNumeric(value.str).ok
    THEN [kind |-> "number", num |-> ToNumeric(value.str).num,
          scale |-> ToNumeric(value.str).scale]
    ELSE [kind |-> "error", num |-> 0, scale |-> 0]

RECURSIVE Pow10(_)
Pow10(n) == IF n = 0 THEN 1 ELSE 10 * Pow10(n - 1)

\* The amount as the store keeps it, in hundredths (the data has at most
\* two decimals).
AmountHundredths(f) ==
    IF f.scale <= 2 THEN f.num * Pow10(2 - f.scale) ELSE f.num \div Pow10(f.scale - 2)

\* One pass of the save loop, lines 351-371.  A row that is Uncategorized or
\* of a category the owner does not have is skipped.  float() raises on a
\* string that is no number, and the INSERT of add_expense raises on nan
\* (bound as NULL into amount REAL NOT NULL): the exception leaves the
\* handler with the earlier rows saved.
SaveRow ==
    /\ ipc = "saving"
    /\ save_i <= Len(edited_df)
    /\ LET row == edited_df[save_i]
           categories_df == get_categories(SessionUser)
           amount == float_of(row.amount)
       IN  IF row.category = "Uncategorized" \/ row.category \notin {c.name : c \in categories_df}
           THEN /\ save_i' = save_i + 1
                /\ UNCHANGED <<ipc, import_error, expenses, next_expense_id, cache, last_op>>
           ELSE IF amount.kind # "number"
           THEN /\ ipc' = "save_raised"
                /\ import_error' = IF amount.kind = "nan" THEN "IntegrityError" ELSE "ValueError"
                /\ UNCHANGED <<save_i, expenses, next_expense_id, cache, last_op>>
           ELSE LET category_id == (CHOOSE c \in categories_df : c.name = row.category).id
                IN  /\ expenses' = expenses \cup
                            {[id |-> next_expense_id, user_id |-> SessionUser,
                              category_id |-> category_id,
                              amount |-> AmountHundredths(amount),
                              date |-> date_str(row.date, now)]}
                    /\ next_expense_id' = next_expense_id + 1
                    /\ cache' = InsertOrReplace(cache, SessionUser, row.description,
                                                row.category)
                    /\ last_op' = Returned("cache_category", SessionUser, row.description,
                                           row.category, TRUE)
                    /\ save_i' = save_i + 1
                    /\ UNCHANGED <<ipc, import_error>>
    /\ UNCHANGED <<parser, parsed_df, imported_expenses, edited_df, now, report, categories,
                   next_category_id, txn, parseVars, catVars>>

\* Lines 373-374: the loop is over; the session state is deleted.
SaveDone ==
    /\ ipc = "saving"
    /\ save_i > Len(edited_df)
    /\ imported_expenses' = <<>>
    /\ ipc' = "saved"
    /\ UNCHANGED <<parser, parsed_df, edited_df, save_i, import_error, now, report,
                   parseVars, dbVars, catVars>>

\* The rows of the uploaded files:
\*   a header row both parsers take;
\*   a header row only the generic parser takes;
\*   a row with a date and an amount in the bank's format;
\*   a row whose date is no date and whose amount is a plain number;
\*   a row with a date and a plain number.
ImportPool ==
    { <<"date", "description", "amount">>,
      <<"time", "name", "price">>,
      <<"01.01.26", "shop", "$1,234.50">>,
      <<"soon", "shop", "12.50">>,
      <<"01.01.26", "shop", "12.50">> }

RECURSIVE ImportGridsOfLen(_)
ImportGridsOfLen(n) ==
    IF n = 0 THEN {<<>>}
    ELSE {Append(g, r) : g \in ImportGridsOfLen(n - 1), r \in ImportPool}

ImportGrids == UNION {ImportGridsOfLen(n) : n \in 0..MaxRows}

\* The owner of the session has one category; "shop" is cached for them or
\* not.
ImportCaches ==
    { {}, {[user_id |-> SessionUser, description |-> "shop", category_name |-> "Food"]} }

InitImport ==
    /\ grid \in ImportGrids
    /\ ppc = "scan" /\ i = 0 /\ current_header_idx = -1
    /\ tables = <<>> /\ segments = <<>> /\ extracted = <<>>
    /\ parse_error = "" /\ full_df = <<>>
    /\ categories = {[id |-> 1, user_id |-> SessionUser, name |-> "Food",
                      year_projection |-> 12000]}
    /\ next_category_id = 2
    /\ expenses = {} /\ next_expense_id = 1
    /\ cache \in ImportCaches
    /\ txn = NoTxn /\ last_op = NoOp
    /\ IdleCat
    /\ now = [year |-> 2026, month |-> 11, day |-> 1] /\ report = NoReport
    /\ ipc = "parse" /\ parser = "" /\ parsed_df = <<>> /\ imported_expenses = <<>>
    /\ edited_df = <<>> /\ save_i = 0 /\ import_error = ""

\* With fewer than BATCH_SIZE rows the batch loop of categorize_expenses
\* never reaches the lines after it (ApplyCategories).
NextImport ==
    \/ ScanRow
    \/ ProcessLast
    \/ Finish
    \/ ParseFile
    \/ ProcessAndCategorize
    \/ CategorizeExpenses
    \/ \E size \in ResponseSizes, shift \in 0..(Len(LabelPool) - 1) :
            CallClassifier("ok", size, shift)
    \/ CallClassifier("rate_limit", 0, 0)
    \/ CallClassifier("error", 0, 0)
    \/ BatchEnd
    \/ CategorizeReturned
    \/ CategorizeRaised
    \/ \E cats \in [1..Len(imported_expenses) -> Range(LabelPool)] : SaveToDatabase(cats)
    \/ SaveRow
    \/ SaveDone

SpecImport == InitImport /\ [][NextImport]_vars

\* ------------------------------------- categories and expenses of the owners
\* update_category_projection: UPDATE categories SET year_projection = ?
\* WHERE id = ? AND user_id = ?
UpdateCategoryProjection(u, category_id, year_projection) ==
    /\ txn.step = "none"
    /\ categories' =
            {IF c.id = category_id /\ c.user_id = u
             THEN [c EXCEPT !.year_projection = year_projection] ELSE c : c \in categories}
    /\ last_op' = Returned("update_category_projection", 0, "", "", TRUE)
    /\ UNCHANGED <<expenses, next_category_id, next_expense_id, cache, txn, parseVars, catVars, appVars>>
    /\ report' = NoReport

\* The rows of a frame read with SELECT *: in the order of the ids.
RECURSIVE SortById(_)
SortById(S) ==
    IF S = {} THEN <<>>
    ELSE LET first == CHOOSE x \in S : \A y \in S : x.id <= y.id
         IN  <<first>> \o SortById(S \ {first})

\* export_user_data: the categories and the expenses of the owner as the
\* tables hold them (amount is a float column; the income frame is left out).
export_user_data(u) ==
    [categories |-> SortById(get_categories(u)),
     expenses |->
        LET rows == SortById({e \in expenses : e.user_id = u})
        IN  [k \in 1..Len(rows) |->
                [rows[k] EXCEPT !.amount = [kind |-> "number", num |-> @, scale |-> 2]]]]

\* import_user_data, lines 317-325: each exported category is inserted for
\* the importing owner, or, when UNIQUE(user_id, name) rejects it, the
\* projection of the owner's category of that name is updated.
RECURSIVE ImportCategories(_, _, _, _)
ImportCategories(st, u, rows, k) ==
    IF k > Len(rows) THEN st
    ELSE LET row == rows[k]
         IN  IF \E c \in st.rows : c.user_id = u /\ c.name = row.name
             THEN ImportCategories(
                    [st EXCEPT !.rows =
                        {IF c.user_id = u /\ c.name = row.name
                         THEN [c EXCEPT !.year_projection = row.year_projection]
                         ELSE c : c \in st.rows}],
                    u, rows, k + 1)
             ELSE ImportCategories(
                    [rows |-> st.rows \cup
                            {[id |-> st.next, user_id |-> u, name |-> row.name,
                              year_projection |-> row.year_projection]},
                     next |-> st.next + 1],
                    u, rows, k + 1)

\* The exported category_id written as it is.
new_cat_id_as_exported(cat_map, cats_df, row) == row.category_id

\* import_user_data, lines 341-348: the name of the exported category of the
\* expense, looked up among the importing owner's categories; 0 when the
\* export has no such category or the owner has none of that name.
new_cat_id(cat_map, cats_df, row) ==
    LET cat_row == {k \in 1..Len(cats_df) : cats_df[k].id = row.category_id}
        cat_name == IF cat_row = {} THEN "" ELSE cats_df[Min(cat_row)].name
        hit == {c \in cat_map : c.name = cat_name}
    IN  IF cat_name # "" /\ hit # {} THEN (CHOOSE c \in hit : TRUE).id ELSE 0

\* import_user_data, lines 332-350: an exported expense whose category maps
\* to one of the owner's is inserted under the owner and the mapped id; a
\* missing amount is bound as NULL into amount REAL NOT NULL and the INSERT
\* raises.
RECURSIVE ImportExpenses(_, _, _, _, _)
ImportExpenses(st, u, cat_map, data, k) ==
    IF k > Len(data.expenses) \/ st.err THEN st
    ELSE LET row == data.expenses[k]
             id == new_cat_id(cat_map, data.categories, row)
         IN  IF id = 0 THEN ImportExpenses(st, u, cat_map, data, k + 1)
             ELSE IF row.amount.kind # "number"
             THEN [st EXCEPT !.err = TRUE]
             ELSE ImportExpenses(
                    [st EXCEPT
                        !.rows = @ \cup
                            {[id |-> st.next, user_id |-> u, category_id |-> id,
                              amount |-> AmountHundredths(row.amount),
                              date |-> row.date]},
                        !.next = @ + 1],
                    u, cat_map, data, k + 1)

\* import_user_data: one transaction, committed at line 358 when no
\* statement raised; the except of line 360 returns False and conn.close()
\* drops what the statements did.
ImportUserData(u, data) ==
    /\ txn.step = "none"
    /\ next_category_id + Len(data.categories) - 1 <= MaxCategoryIds
    /\ next_expense_id + Len(data.expenses) - 1 <= MaxExpenseIds
    /\ LET cats == ImportCategories([rows |-> categories, next |-> next_category_id],
                                    u, data.categories, 1)
           cat_map == {c \in cats.rows : c.user_id = u}
           exps == ImportExpenses([rows |-> expenses, next |-> next_expense_id,
                                   err |-> FALSE], u, cat_map, data, 1)
       IN  IF exps.err
           THEN /\ last_op' = Returned("import_user_data", 0, "", "", FALSE)
                /\ UNCHANGED <<categories, next_category_id, expenses, next_expense_id>>
           ELSE /\ categories' = cats.rows
                /\ next_category_id' = cats.next
                /\ expenses' = exps.rows
                /\ next_expense_id' = exps.next
                /\ last_op' = Returned("import_user_data", 0, "", "", TRUE)
    /\ UNCHANGED <<cache, txn, parseVars, catVars, appVars>>
    /\ report' = NoReport

\* Exports that do not come from the tables as they are: an expense of a
\* category the export does not hold, and an expense without an amount.
ExportedCategory ==
    [id |-> 1, user_id |-> 1, name |-> "Food", year_projection |-> 6000]

ExportedExpense(category_id, amount) ==
    [id |-> 1, user_id |-> 1, category_id |-> category_id, amount |-> amount,
     date |-> [year |-> 2026, month |-> 7, day |-> 1]]

ExportPool ==
    { [categories |-> <<ExportedCategory>>,
       expenses |-> <<ExportedExpense(2, [kind |-> "number", num |-> 500000, scale |-> 2])>>],
      [categories |-> <<ExportedCategory>>,
       expenses |-> <<ExportedExpense(1, [kind |-> "nan", num |-> 0, scale |-> 0])>>] }

\* The file of the import page: one header row and one transaction.
OwnersGrid == << <<"date", "description", "amount">>, <<"01.01.26", "shop", "12.50">> >>

\* A fresh store, and a file uploaded to the import page of the session's
\* owner.
InitOwners ==
    /\ grid = OwnersGrid
    /\ ppc = "scan" /\ i = 0 /\ current_header_idx = -1
    /\ tables = <<>> /\ segments = <<>> /\ extracted = <<>>
    /\ parse_error = "" /\ full_df = <<>>
    /\ IdleStore /\ IdleCat
    /\ now = [year |-> 2026, month |-> 11, day |-> 1] /\ report = NoReport
    /\ ipc = "parse" /\ parser = "" /\ parsed_df = <<>> /\ imported_expenses = <<>>
    /\ edited_df = <<>> /\ save_i = 0 /\ import_error = ""

\* The handlers run one at a time.  The steps of the import page before the
\* review neither read nor write the categories and the expenses, so the
\* handlers of the other pages are taken from the review on; they are not
\* served while the save loop runs, and the save loop does not start inside
\* delete_category.
PageAtRest == ipc \in {"review", "saved", "save_raised"}

NextOwners ==
    \/ \E u \in Users : PageAtRest /\ AddCategory(u, "Food", 12000)
    \/ \E u \in Users, id \in 1..MaxCategoryIds :
            PageAtRest /\ UpdateCategoryProjection(u, id, 6000)
    \/ \E u \in Users : PageAtRest /\ AddExpense(u, "Food", Hundredths(5000), 2026, 7)
    \/ \E u \in Users : PageAtRest /\ DeleteCategoryBegin(u, "Food")
    \/ DeleteCategoryRow
    \/ DeleteCategoryCommit
    \/ DeleteCategoryFail
    \/ \E u \in Users, data \in {export_user_data(src) : src \in Users} \cup ExportPool :
            PageAtRest /\ ImportUserData(u, data)
    \/ ScanRow
    \/ ProcessLast
    \/ Finish
    \/ ParseFile
    \/ ProcessAndCategorize
    \/ CategorizeExpenses
    \/ \E shift \in 0..(Len(LabelPool) - 1) : CallClassifier("ok", 1, shift)
    \/ BatchEnd
    \/ CategorizeReturned
    \/ CategorizeRaised
    \/ \E cats \in [1..Len(imported_expenses) -> Range(LabelPool)] :
            txn.step = "none" /\ SaveToDatabase(cats)
    \/ SaveRow
    \/ SaveDone

SpecOwners == InitOwners /\ [][NextOwners]_vars

\* ------------------------------------------------------- claims on parse
\* The 0-based indices of the rows of the grid that qualify as headers.
HeaderRows == {r \in 0..(Len(grid) - 1) : IsHeaderRow(grid[r + 1])}

ParseEnded == ppc \in {"finish", "returned", "raised"}

\* The segments are ordered, contiguous and non-overlapping, start at the
\* first qualifying row, open exactly at the qualifying rows and end at the
\* grid's end.
SegmentsAsClaimed ==
    /\ segments # <<>>
    /\ segments[1][1] = Min(HeaderRows)
    /\ {segments[k][1] : k \in 1..Len(segments)} = HeaderRows
    /\ \A k \in 1..Len(segments) : segments[k][1] < segments[k][2]
    /\ \A k \in 1..(Len(segments) - 1) : segments[k][2] = segments[k + 1][1]
    /\ segments[Len(segments)][2] = Len(grid)

\* C1: for every grid with at least one row of 2 or more header-keyword
\* cells, once parse has ended its segmentation is a non-empty list of
\* segments: the first starts at the first qualifying row, every later
\* qualifying row closes the open segment and opens the next, the last ends
\* at the grid's end, and the segments are ordered, contiguous and
\* non-overlapping.
C1_Segmentation == (ParseEnded /\ HeaderRows # {}) => SegmentsAsClaimed

\* C2: for every grid in which no row has 2 or more header-keyword cells,
\* parse extracts nothing, never returns, and ends by raising the
\* "no valid transaction tables" ValueError with no rows returned.
C2_NoHeaderFails ==
    HeaderRows = {} =>
        /\ tables = <<>> /\ segments = <<>> /\ full_df = <<>>
        /\ ppc # "returned"
        /\ ppc = "raised" => parse_error = "ValueError"

\* A grid with rows, one of them with a single keyword cell, none qualifying,
\* on which parse has raised.
C2_Witness ==
    /\ ppc = "raised"
    /\ HeaderRows = {}
    /\ \E r \in 1..Len(grid) : MatchCount(grid[r]) = 1
    /\ \E r \in 1..Len(grid) : MatchCount(grid[r]) = 0

\* The segments of the grid: every qualifying row with the next one, or the
\* grid's end, as its end.
GridSegments ==
    {<<h, e>> \in HeaderRows \X (1..Len(grid)) :
        /\ h < e
        /\ e \in HeaderRows \cup {Len(grid)}
        /\ \A r \in HeaderRows : ~(h < r /\ r < e)}

\* The number of canonical fields the header of the segment that starts at
\* row h resolves.
Resolved(h) ==
    Cardinality({t \in Range(Targets) : FinalCol(StrippedColumns(grid[h + 1]), t) # 0})

\* C14: with a segment whose header resolves fewer than 3 fields and another
\* segment that resolves all three and has valid rows, parse ends by
\* returning, and what it returns holds the transactions of that other
\* segment.
C14_PartialMappingLocal ==
    (ppc \in {"returned", "raised"}) =>
        \A s1, s2 \in GridSegments :
            (/\ Resolved(s1[1]) < 3
             /\ Resolved(s2[1]) = 3
             /\ ExtractTable(grid, s2[1], s2[2]).err = ""
             /\ ExtractTable(grid, s2[1], s2[2]).rows # <<>>)
            => /\ ppc = "returned"
               /\ Range(ExtractTable(grid, s2[1], s2[2]).rows) \subseteq Range(full_df)

\* The data rows of the k-th extracted segment, as indices of the grid.
DataRows(k) == (segments[k][1] + 2)..segments[k][2]

\* The row is one the claim says yields a transaction: its date (first
\* column) is 01.01.26 and its amount (third column) is the shekel sign with
\* 1,234.50.
YieldsTransaction(row) == row[1] = "01.01.26" /\ row[3] = "$1,234.50"

\* Every extraction that did not raise kept exactly the rows that yield a
\* transaction, each as 2026-01-01 and 1234.50.
RowsKept ==
    \A k \in 1..Len(extracted) :
        extracted[k].err = "" =>
            /\ Len(extracted[k].rows) =
                  Cardinality({r \in DataRows(k) : YieldsTransaction(grid[r])})
            /\ \A j \in 1..Len(extracted[k].rows) :
                  /\ extracted[k].rows[j].date =
                        [ok |-> TRUE, year |-> 2026, month |-> 1, day |-> 1]
                  /\ extracted[k].rows[j].amount = [ok |-> TRUE, num |-> 123450, scale |-> 2]

\* A data row of an extracted segment was rejected.
SomeRowRejected ==
    \E k \in 1..Len(extracted) :
        extracted[k].err = "" /\ \E r \in DataRows(k) : ~YieldsTransaction(grid[r])

\* C15 as stated: a data row yields a transaction if and only if its amount
\* parses after the cleaning and its date matches day.month.2-digit-year, and
\* rejected rows do not make parse fail for want of transactions.
C15_RowFilter ==
    /\ RowsKept
    /\ SomeRowRejected => ~(ppc = "raised" /\ parse_error = "ValueError")

\* C15 as amended: a data row yields a transaction if and only if its amount
\* parses after the cleaning and its date matches day.month.2-digit-year; a
\* rejected row makes no extraction raise; and once every extraction has left
\* no row parse ends with the "no valid transaction tables" ValueError.
C15_RowFilterAmended ==
    /\ RowsKept
    /\ \A k \in 1..Len(extracted) :
            extracted[k].err = "KeyError" <=>
                (extracted[k].final_cols["date"] = 0 \/ extracted[k].final_cols["amount"] = 0
                 \/ extracted[k].final_cols["date"] = extracted[k].final_cols["amount"])
    /\ (/\ ppc \in {"returned", "raised"}
        /\ \A k \in 1..Len(extracted) :
                extracted[k].err = "" /\ extracted[k].rows = <<>>)
       => (ppc = "raised" /\ parse_error = "ValueError")

\* parse has returned one transaction from a segment with a row that yields
\* one and a row that was rejected.
C15_Witness ==
    /\ ppc = "returned" /\ Len(full_df) = 1
    /\ Len(extracted) = 1 /\ Len(extracted[1].rows) = 1
    /\ SomeRowRejected

\* Two canonical fields of the mapping name one column.
Collides(final_cols) ==
    \E t1, t2 \in Range(Targets) :
        t1 # t2 /\ final_cols[t1] # 0 /\ final_cols[t1] = final_cols[t2]

\* C18: a segment whose mapping resolves two canonical fields to one column
\* yields no transaction with a missing canonical field.
C18_DistinctColumns ==
    \A k \in 1..Len(extracted) :
        Collides(extracted[k].final_cols) =>
            \A j \in 1..Len(extracted[k].rows) :
                /\ extracted[k].rows[j].description # NaN
                /\ {"date", "description", "amount"} \subseteq extracted[k].cols

\* Column c of the header is one of the candidates of the target, or has one
\* of them inside.
IsExact(cols, target, c) == \E cand \in Range(col_map(target)) : cols[c] = cand

IsPartial(cols, target, c) ==
    \E cand \in Range(col_map(target)) : Contains(cand, cols[c])

\* The header, stripped, of the k-th extracted segment.
HeaderOf(k) == StrippedColumns(grid[segments[k][1] + 1])

\* C19: every extraction resolved each canonical field to the first column
\* that equals a candidate; with no such column, to the first column that
\* has a candidate inside; with neither, to nothing.
C19_ExactBeforePartial ==
    \A k \in 1..Len(extracted) :
        \A t \in Range(Targets) :
            LET cols == HeaderOf(k)
                fc == extracted[k].final_cols[t]
                exact == {c \in 1..Len(cols) : IsExact(cols, t, c)}
                partial == {c \in 1..Len(cols) : IsPartial(cols, t, c)}
            IN  /\ exact # {} => (fc \in exact /\ \A c \in exact : fc <= c)
                /\ (exact = {} /\ partial # {}) =>
                        (fc \in partial /\ \A c \in partial : fc <= c)
                /\ (exact = {} /\ partial = {}) => fc = 0

\* A segment whose second column has the sum keyword inside and whose third
\* column equals a candidate of amount was mapped: amount is the third.
C19_Witness ==
    \E k \in 1..Len(extracted) :
        /\ IsPartial(HeaderOf(k), "amount", 2) /\ ~IsExact(HeaderOf(k), "amount", 2)
        /\ IsExact(HeaderOf(k), "amount", 3)
        /\ extracted[k].final_cols["amount"] = 3

\* The cell has a keyword of the list inside.
HasKeyword(cell) == \E k \in 1..Len(keywords) : Contains(keywords[k], Strip(cell))

\* At least 2 cells of the row have a keyword inside.
TwoKeywordCells(row) ==
    \E c1, c2 \in 1..Len(row) : c1 # c2 /\ HasKeyword(row[c1]) /\ HasKeyword(row[c2])

\* C20: while parse scans, the open header is the last scanned row with at
\* least 2 keyword cells (none when no scanned row has 2), and the segments
\* extracted so far start exactly at the earlier such rows.
C20_HeaderRow ==
    ppc = "scan" =>
        LET qualifying == {r \in 0..(i - 1) : TwoKeywordCells(grid[r + 1])}
        IN  /\ current_header_idx =
                  IF qualifying = {} THEN -1
                  ELSE CHOOSE r \in qualifying : \A q \in qualifying : q <= r
            /\ {segments[k][1] : k \in 1..Len(segments)} = qualifying \ {current_header_idx}

\* The first row has a single cell with two keywords in it and was not taken
\* for a header; the second row was.
C20_Witness ==
    /\ ppc = "scan" /\ i = 2
    /\ HasKeyword(grid[1][1]) /\ Contains("SCVM", grid[1][1]) /\ Contains("HYVB", grid[1][1])
    /\ ~HasKeyword(grid[1][2]) /\ ~HasKeyword(grid[1][3])
    /\ current_header_idx = 1

\* ------------------------------------------------- claims on the import page
\* The expense has a date and an amount that cells of the row parse to:
\* the date in the bank's day.month.year form or as pd.to_datetime reads it,
\* the amount after the cleaning of the advanced parser.
ParsedFromRow(e, row) ==
    /\ \E c \in 1..Len(row) :
        \E d \in {ToDatetime(row[c]), ParseAnyDate(row[c], now.year)} :
            d.ok /\ e.date = [year |-> d.year, month |-> d.month, day |-> d.day]
    /\ \E c \in 1..Len(row) :
        /\ ToNumeric(CleanAmount(row[c])).ok
        /\ e.amount = AmountHundredths(ToNumeric(CleanAmount(row[c])))

FileParsed == ipc \notin {"idle", "parse"}

SaveEnded == ipc \in {"saved", "save_raised"}

\* The reviewed rows whose category is a category of the owner.
RowsToSave ==
    {j \in 1..Len(edited_df) :
        edited_df[j].category \in {c.name : c \in get_categories(SessionUser)}}

OpReturned == last_op'.seq # last_op.seq

\* C9: cache_category is an idempotent overwrite keyed by (owner, exact
\* description): the table never holds two rows of one (owner, description),
\* after cache_category(o, d, c) get_cached_category(o, d) is c, and a second
\* call with the same (o, d, c) right after the first leaves the table as the
\* first left it.
C9_CacheIdempotent ==
    /\ [](\A r1, r2 \in cache :
             (r1.user_id = r2.user_id /\ r1.description = r2.description) => r1 = r2)
    /\ [](last_op.op = "cache_category" =>
             get_cached_category(cache, last_op.user_id, last_op.key) = last_op.value)
    /\ [][(OpReturned /\ last_op'.op = "cache_category" /\ last_op'.repeat)
             => cache' = cache]_vars

\* cache_category has just been called twice with the same arguments, on a
\* key that held another category before, while the other owner and the
\* description that differs only in case hold other categories.
C9_Witness ==
    /\ last_op.op = "cache_category" /\ last_op.repeat
    /\ last_op.user_id = 1 /\ last_op.key = "shop" /\ last_op.value = "Food"
    /\ get_cached_category(cache, 2, "shop") = "Transport"
    /\ get_cached_category(cache, 1, "Shop") = "Uncategorized"

C10_DeleteCascade ==
    [][ /\ (OpReturned /\ last_op'.op = "delete_category" /\ last_op'.ret) =>
            \E del \in categories :
                /\ del.user_id = last_op'.user_id /\ del.name = last_op'.key
                /\ ~\E c \in categories' :
                        c.user_id = last_op'.user_id /\ c.name = last_op'.key
                /\ ~\E e \in expenses' :
                        e.user_id = del.user_id /\ e.category_id = del.id
                /\ categories' = categories \ {del}
                /\ expenses' \subseteq expenses
                /\ \A e \in expenses \ expenses' :
                        e.user_id = del.user_id /\ e.category_id = del.id
        /\ \A c \in categories \ categories' :
                ~\E e \in expenses' : e.user_id = c.user_id /\ e.category_id = c.id
        /\ \A e \in expenses \ expenses' :
                \E c \in categories \ categories' :
                    c.user_id = e.user_id /\ c.id = e.category_id
      ]_vars

\* delete_category has returned True after deleting a category together with
\* an expense of it, and a category with an expense of its own is left.
C10_Witness ==
    /\ last_op.op = "delete_category" /\ last_op.ret
    /\ next_expense_id = 3 /\ Cardinality(expenses) = 1
    /\ next_category_id = 3 /\ Cardinality(categories) = 1
    /\ \E e \in expenses, c \in categories :
            e.category_id = c.id /\ e.user_id = c.user_id

\* C25: after any sequence of add_category, update_category_projection,
\* delete_category, expense additions (the add-expense form, the save of the
\* reviewed rows) and import_user_data, every stored expense references a
\* category that exists and has the owner of the expense, and no owner has
\* two categories of one name; add_category returns True only when it has
\* inserted a category whose name the owner did not have, and when it
\* returns False it has changed nothing.
C25_OwnersConsistent ==
    /\ [](\A e \in expenses :
            \E c \in categories : c.id = e.category_id /\ c.user_id = e.user_id)
    /\ [](\A c1, c2 \in categories :
            (c1.user_id = c2.user_id /\ c1.name = c2.name) => c1 = c2)
    /\ [][(last_op' # last_op /\ last_op'.op = "add_category") =>
            IF last_op'.ret
            THEN \E c \in categories' \ categories :
                    /\ categories' = categories \cup {c}
                    /\ ~\E old \in categories : old.user_id = c.user_id /\ old.name = c.name
            ELSE UNCHANGED <<categories, expenses, cache>>]_vars

\* import_user_data has copied the category and the expense of one owner to
\* the other: both own a category of the same name, each with an expense.
C25_Witness ==
    /\ last_op.op = "import_user_data" /\ last_op.ret
    /\ \E c1, c2 \in categories :
            /\ c1.user_id = SessionUser /\ c2.user_id = OtherUser /\ c1.name = c2.name
            /\ \E e1, e2 \in expenses :
                    /\ e1.user_id = c1.user_id /\ e1.category_id = c1.id
                    /\ e2.user_id = c2.user_id /\ e2.category_id = c2.id

\* -------------------------------------------------- claims on the categorizer
\* The category the cache held for a description when categorization started.
CachedAtStart(d) == get_cached_category(cache0, SessionUser, d)

\* The positions (in expenses_df) of the rows of the current batch and of a
\* logged batch.
CurrentBatch == Batch(uncached, batch_i)

LoggedBatch(b) == Batch(uncached, b.first)

\* BatchEnd leaves every row of the current batch "Uncategorized", writes
\* nothing to the cache and, when uncached rows are left, moves to the next
\* batch.
BatchDegraded ==
    /\ \A k \in 1..Len(CurrentBatch) :
            new_categories_map'[CurrentBatch[k]] = "Uncategorized"
    /\ cache' = cache
    /\ (batch_i + BATCH_SIZE < Len(uncached)) =>
            (cpc' = "call" /\ batch_i' = batch_i + BATCH_SIZE /\ calls' = 0)

\* categorize_expenses has ended, by a return or by an exception.
CatEnded == cpc \in {"returned", "raised"}

\* Once categorize_expenses has ended, every row of every logged batch that
\* ended `kind` is "Uncategorized" in the frame the caller holds.
EndedDegraded(kind) ==
    CatEnded =>
        \A m \in 1..Len(batch_log) :
            batch_log[m].outcome = kind =>
                \A k \in 1..Len(LoggedBatch(batch_log[m])) :
                    expenses_df[LoggedBatch(batch_log[m])[k]].category = "Uncategorized"

\* C3: with no API key every row whose description is not cached is returned
\* "Uncategorized", every row whose description is cached is returned with
\* its cached label, and the cache is unchanged.
C3_NoClassifier ==
    (cpc = "returned" /\ ~api_key) =>
        /\ \A j \in 1..Len(expenses_df) :
              expenses_df[j].category =
                  IF CachedAtStart(expenses_df[j].description) = "" THEN "Uncategorized"
                  ELSE CachedAtStart(expenses_df[j].description)
        /\ cache = cache0

\* C4: a batch whose 3 attempts all fail with a rate-limit error has had 2
\* warnings and 1 error reported; the end of the batch gives all its rows
\* "Uncategorized", writes no cache entry and goes on with the next batch;
\* no exception leaves categorize_expenses after such a batch, and its rows
\* are "Uncategorized" in the frame once the function has ended.
C4_RateLimitExhausted ==
    /\ []((cpc = "batch_end" /\ outcome = "rate_limit") =>
            (calls = 3 /\ ~success /\ warnings = 2 /\ errors = 1))
    /\ [][(cpc = "batch_end" /\ outcome = "rate_limit") => BatchDegraded]_vars
    /\ []((\E m \in 1..Len(batch_log) : batch_log[m].outcome = "rate_limit") =>
            cpc # "raised")
    /\ []EndedDegraded("rate_limit")

\* C5: a batch gets at most 3 classifier calls; a further call of the same
\* batch follows only a rate-limit failure with attempts left, after a wait;
\* the waits of a batch are 2 then 4, one after each failed attempt but the
\* third (time.sleep(1), which ends every batch, is not a retry wait).
C5_RetryBackoff ==
    /\ [](calls <= 3)
    /\ [](sleeps \in {<<>>, <<2>>, <<2, 4>>})
    /\ [](cpc = "call" => Len(sleeps) = calls)
    /\ [](cpc = "batch_end" => Len(sleeps) = calls - 1)
    /\ []((cpc = "batch_end" /\ outcome = "rate_limit") => (calls = 3 /\ sleeps = <<2, 4>>))
    /\ [][(cpc = "call" /\ cpc' = "call" /\ calls' = calls + 1) =>
            (outcome' = "rate_limit" /\ calls' < 3 /\ Len(sleeps') = Len(sleeps) + 1)]_vars

\* The third attempt of a batch has just failed on the rate limit, after
\* waits of 2 and 4.
C5_Witness ==
    cpc = "batch_end" /\ outcome = "rate_limit" /\ calls = 3 /\ sleeps = <<2, 4>>

\* C6: a call that fails with an error that is not rate-limit-class ends the
\* retry loop of its batch, whichever attempt it is; the end of the batch
\* gives all its rows "Uncategorized", writes no cache entry and goes on with
\* the next batch, and the rows are "Uncategorized" in the frame once the
\* function has ended.
C6_HardFailure ==
    /\ [][(cpc = "call" /\ calls' = calls + 1 /\ outcome' = "error") =>
            (cpc' = "batch_end" /\ ~success' /\ errors' = errors + 1
             /\ sleeps' = sleeps)]_vars
    /\ [][(cpc = "batch_end" /\ outcome = "error") => BatchDegraded]_vars
    /\ []EndedDegraded("error")

\* C7: a parsable response whose number of labels is not the batch size ends
\* the retry loop; the end of the batch gives all its rows "Uncategorized"
\* (no label of the response), writes no cache entry, and the rows are
\* "Uncategorized" in the frame once the function has ended.
C7_CountMismatch ==
    /\ [][(cpc = "call" /\ calls' = calls + 1 /\ outcome' = "mismatch") =>
            (cpc' = "batch_end" /\ ~success')]_vars
    /\ []((cpc = "batch_end" /\ outcome = "mismatch") =>
            (~success /\ Len(batch_categories) # Len(CurrentBatch)))
    /\ [][(cpc = "batch_end" /\ outcome = "mismatch") => BatchDegraded]_vars
    /\ []EndedDegraded("mismatch")

\* The logged batches that were classified and hold description d.
ClassifiedWith(d) ==
    {m \in 1..Len(batch_log) :
        /\ batch_log[m].outcome = "ok"
        /\ \E k \in 1..Len(LoggedBatch(batch_log[m])) :
                expenses_df[LoggedBatch(batch_log[m])[k]].description = d}

\* The label the response of logged batch b gave to the last row of the
\* batch that holds description d.
LastLabel(b, d) ==
    LET at == {k \in 1..Len(LoggedBatch(b)) :
                    expenses_df[LoggedBatch(b)[k]].description = d}
    IN  b.labels[CHOOSE k \in at : \A x \in at : x <= k]

UncachedRows == {j \in 1..Len(expenses_df) : CachedAtStart(expenses_df[j].description) = ""}

\* The number of batches of at most BATCH_SIZE that n rows make.
BatchCount(n) == (n + BATCH_SIZE - 1) \div BATCH_SIZE

ClassifierLabel(j) ==
    LET hit == {mk \in (1..Len(batch_log)) \X (1..BATCH_SIZE) :
                    /\ batch_log[mk[1]].outcome = "ok"
                    /\ mk[2] <= batch_log[mk[1]].size
                    /\ LoggedBatch(batch_log[mk[1]])[mk[2]] = j}
    IN  IF hit = {} THEN ""
        ELSE LET mk == CHOOSE x \in hit : TRUE IN batch_log[mk[1]].labels[mk[2]]

\* C24: with a classifier, categorize_expenses ends, and ends by returning;
\* the rows of the frame are those of the input in their order, and in what
\* it returns every row has a category: its cached label, the label of the
\* classifier in a classified batch, or "Uncategorized".
C24_TerminatesWithLabels ==
    /\ (api_key /\ cpc = "start") ~> CatEnded
    /\ []((api_key /\ CatEnded) => cpc = "returned")
    /\ [][\A j \in 1..Len(expenses_df) :
            /\ Len(expenses_df') = Len(expenses_df)
            /\ expenses_df'[j].description = expenses_df[j].description]_vars
    /\ []((api_key /\ cpc = "returned") =>
            \A j \in 1..Len(expenses_df) :
                /\ expenses_df[j].category # ""
                /\ expenses_df[j].category \in
                        {CachedAtStart(expenses_df[j].description), ClassifierLabel(j),
                         "Uncategorized"})

\* ----------------------------------------------------- claims on the reports
\* What owner u spent on the category of id cid in `year`, in the months
\* `months`.
SpentOn(u, cid, year, months) ==
    SumAmount({e \in expenses :
        /\ e.user_id = u /\ e.category_id = cid
        /\ e.date.year = year /\ e.date.month \in months})

\* The rows of the report at hand that are about the category of id cid.
RowsOf(cid) == {r \in report.rows : r.id = cid}

\* Two quotients that are the same number.
SameQuotient(a, b) == a.num * b.den = b.num * a.den

====
